---- MODULE Spec2Model ----
(***************************************************************************)
(* A model of ui/src/windows.rs: the Window wrapper over the native        *)
(* uiWindow, the thread-local WINDOWS registry and the callback shims.     *)
(* The native toolkit (ui_sys), ffi_utils and the define_control! macro    *)
(* are outside windows.rs; they are modelled as a stub native layer.       *)
(***************************************************************************)
EXTENDS Integers, Sequences, FiniteSets, TLC

\* ---------------------------------------------------------------- bounds
MaxHandles == 2        \* native window addresses the toolkit can hand out
MaxRegistry == 2       \* longest WINDOWS vector explored per thread
MaxClosures == 1       \* heap addresses available to boxed closures
MaxTitleLen == 1       \* longest title passed to new / set_title
MaxSets == 1           \* setter and registration calls explored per run

Handles == 1..MaxHandles
Threads == {1, 2}
MainThread == 1        \* the thread that drives the user interface
Addrs == 1..MaxClosures
Bytes == {0, 1}
Kinds == {"position", "content_size", "closing"}
Coords == {<<-1, 2>>, <<2, -1>>}
Sizes == {<<3, 4>>}
Menubars == {TRUE}     \* has_menubar only travels to uiNewWindow
Controls == {7}
NoChild == 0           \* the null uiControl pointer
NullData == 0          \* the null user-data pointer
NoHandle == 0          \* the null uiWindow pointer

RECURSIVE SeqsOver(_, _)
SeqsOver(S, n) ==
    IF n = 0 THEN {<<>>}
    ELSE LET shorter == SeqsOver(S, n - 1)
         IN shorter \cup {Append(s, b) : s \in {x \in shorter : Len(x) = n - 1}, b \in S}

Titles == SeqsOver(Bytes, MaxTitleLen)

\* ------------------------------------------------------------ marshaling
\* A conversion that stops at the first 0 byte instead of refusing it.
CStringNewTruncating(bytes) == [ok |-> TRUE, buf |-> Append(bytes, 0)]

\* CString::new(bytes): NulError when an interior 0 byte is present,
\* otherwise the bytes followed by the terminator.
CStringNew(bytes) ==
    IF \E i \in 1..Len(bytes) : bytes[i] = 0
    THEN [ok |-> FALSE, buf |-> <<>>]
    ELSE [ok |-> TRUE, buf |-> Append(bytes, 0)]

\* What a C reader sees behind a char pointer: the bytes before the first 0.
RECURSIVE CStrRead(_)
CStrRead(buf) ==
    IF buf = <<>> \/ Head(buf) = 0 THEN <<>>
    ELSE <<Head(buf)>> \o CStrRead(Tail(buf))

\* Text::new(ptr): the text behind a native char pointer.
TextNew(buf) == CStrRead(buf)

\* `b as c_int`
BoolAsCInt(b) == IF b THEN 1 ELSE 0

\* `x as c_int` for an i32 x: c_int is i32, the cast keeps every bit.
I32AsCInt(x) == x

\* ------------------------------------------------------------------ state
VARIABLES
    initialized,   \* the toolkit has been initialized
    initCount,     \* native initializations performed
    status,        \* "running" | "aborted"
    WINDOWS,       \* [Threads -> Seq(Handles)], the thread_local registry
    native,        \* [Handles -> native window record]
    heap,          \* [Addrs -> boxed closure record]
    sets,          \* setter and registration calls made so far
    individual,    \* a window has been destroyed other than by destroy_all_windows
    doubleDestroy, \* a native destroy has been given a dead window
    last           \* the last operation: what was called and what it returned

vars == <<initialized, initCount, status, WINDOWS, native, heap, sets,
          individual, doubleDestroy, last>>

DeadWindow ==
    [alive |-> FALSE, title |-> <<>>, pos |-> <<0, 0>>, size |-> <<0, 0>>,
     fullscreen |-> 0, borderless |-> 0, margined |-> 0, child |-> NoChild,
     cb |-> [k \in Kinds |-> NullData]]

FreeBox == [state |-> "unused", ret |-> FALSE, h |-> NoHandle, kind |-> "none"]

NoOp == [op |-> "none", t |-> 0, h |-> NoHandle, arg |-> <<>>, res |-> <<>>,
         err |-> "none", calls |-> <<>>]

\* The record of one call: the operation, its thread (0 where the thread plays
\* no part), its window, its argument, its result and the calls it made.
Op(op, t, h, arg, res, calls) ==
    [op |-> op, t |-> t, h |-> h, arg |-> arg, res |-> res, err |-> "none",
     calls |-> calls]

\* The record of a call that failed with `err` and returned nothing.
Failed(op, t, h, arg, err, calls) ==
    [op |-> op, t |-> t, h |-> h, arg |-> arg, res |-> <<>>, err |-> err,
     calls |-> calls]

Init ==
    /\ initialized = FALSE
    /\ initCount = 0
    /\ status = "running"
    /\ WINDOWS = [t \in Threads |-> <<>>]
    /\ native = [h \in Handles |-> DeadWindow]
    /\ heap = [a \in Addrs |-> FreeBox]
    /\ sets = 0
    /\ individual = FALSE
    /\ doubleDestroy = FALSE
    /\ last = NoOp

\* ----------------------------------------------------------- native stub
\* uiNewWindow(title, width, height, hasMenubar): a fresh native window.
uiNewWindow(nat, h, buf, width, height) ==
    [nat EXCEPT ![h] = [DeadWindow EXCEPT !.alive = TRUE,
                                           !.title = CStrRead(buf),
                                           !.size = <<width, height>>]]

\* uiControlDestroy(window): the native window is gone.
uiControlDestroy(nat, h) == [nat EXCEPT ![h] = DeadWindow]

\* ffi_utils::ensure_initialized(): passes only on an initialized toolkit.
ensure_initialized == initialized

\* A call on an uninitialized toolkit is fatal.
Fatal(op, t, h) ==
    /\ status' = "aborted"
    /\ last' = Failed(op, t, h, <<>>, "UninitializedToolkitError",
                     <<"ensure_initialized">>)
    /\ UNCHANGED <<initialized, initCount, WINDOWS, native, heap, sets, individual,
                   doubleDestroy>>

\* The one-time toolkit initialization.
init ==
    /\ status = "running"
    /\ ~initialized
    /\ initialized' = TRUE
    /\ initCount' = initCount + 1
    /\ last' = Op("init", 0, NoHandle, <<>>, "ok", <<"uiInit">>)
    /\ UNCHANGED <<status, WINDOWS, native, heap, sets, individual, doubleDestroy>>

\* ------------------------------------------------------------- lifecycle
\* Window { ui_window: window }
from_ui_window(window) == [ui_window |-> window]

as_ui_window(w) == w.ui_window

\* The registry as a set: a window already tracked is not pushed again.
RegistryPushDedup(ws, t, window) ==
    IF \E i \in 1..Len(ws[t]) : ws[t][i] = window THEN ws
    ELSE [ws EXCEPT ![t] = Append(@, window)]

\* The registry as one global vector: every thread pushes to the same one.
RegistryPushGlobal(ws, t, window) == [ws EXCEPT ![MainThread] = Append(@, window)]

\* WINDOWS.with(|windows| windows.borrow_mut().push(window.clone()))
RegistryPush(ws, t, window) == [ws EXCEPT ![t] = Append(@, window)]

\* The address the toolkit allocates the next window at: the lowest one free
\* (none when every address is taken).
NewAddress(nat) ==
    IF \A h \in Handles : nat[h].alive THEN NoHandle
    ELSE CHOOSE h \in Handles :
            ~nat[h].alive /\ \A g \in Handles : ~nat[g].alive => h <= g

\* Window::new
new(t, title, size, has_menubar) ==
    /\ status = "running"
    /\ Len(WINDOWS[t]) < MaxRegistry
    /\ IF ~ensure_initialized THEN Fatal("new", t, NoHandle)
       ELSE LET c_string == CStringNew(title) IN
            IF ~c_string.ok
            THEN \* unwrap() of the NulError panics before uiNewWindow is reached
                 /\ last' = Failed("new", t, NoHandle, title, "EncodingError",
                                   <<"ensure_initialized">>)
                 /\ UNCHANGED <<initialized, initCount, status, WINDOWS, native, heap,
                                sets, individual, doubleDestroy>>
            ELSE \E h \in Handles :
                 /\ h = NewAddress(native)
                 /\ native' = uiNewWindow(native, h, c_string.buf, I32AsCInt(size[1]),
                                          I32AsCInt(size[2]))
                 /\ WINDOWS' = RegistryPush(WINDOWS, t, from_ui_window(h))
                 /\ last' = Op("new", t, h, title, from_ui_window(h),
                               <<"ensure_initialized", "uiNewWindow">>)
                 /\ UNCHANGED <<initialized, initCount, status, heap, sets, individual,
                                doubleDestroy>>

\* The outcomes of a native destroy: on a dead window the behaviour is undefined,
\* and the process may or may not survive it.
DestroyOutcomes(dead) == IF dead THEN {"running", "aborted"} ELSE {"running"}

\* Window::destroy (define_control!): uiControlDestroy on the handle, unchecked.
destroy(w) ==
    /\ status = "running"
    /\ \E t \in Threads : \E i \in 1..Len(WINDOWS[t]) : WINDOWS[t][i] = w
    /\ LET h == as_ui_window(w) IN
       /\ native' = uiControlDestroy(native, h)
       /\ individual' = TRUE
       /\ doubleDestroy' = (doubleDestroy \/ ~native[h].alive)
       /\ \E s \in DestroyOutcomes(~native[h].alive) : status' = s
       /\ last' = Op("destroy", 0, h, <<>>, "ok", <<"uiControlDestroy">>)
    /\ UNCHANGED <<initialized, initCount, WINDOWS, heap, sets>>

\* The vector walked from its end.
RECURSIVE DrainReversed(_, _)
DrainReversed(windows, acc) ==
    IF windows = <<>> THEN acc
    ELSE LET h == as_ui_window(windows[Len(windows)]) IN
         DrainReversed(SubSeq(windows, 1, Len(windows) - 1),
                       [native |-> uiControlDestroy(acc.native, h),
                        log |-> Append(acc.log, h),
                        dead |-> acc.dead \/ ~acc.native[h].alive])

\* for window in windows.drain(..) { window.destroy() }
RECURSIVE Drain(_, _)
Drain(windows, acc) ==
    IF windows = <<>> THEN acc
    ELSE LET h == as_ui_window(Head(windows)) IN
         Drain(Tail(windows),
               [native |-> uiControlDestroy(acc.native, h),
                log |-> Append(acc.log, h),
                dead |-> acc.dead \/ ~acc.native[h].alive])

\* The vector iterated, not drained: its entries stay.
NotDrained(ws, t) == ws

\* windows.drain(..): the vector is left empty.
Drained(ws, t) == [ws EXCEPT ![t] = <<>>]

\* Window::destroy_all_windows
destroy_all_windows(t) ==
    /\ status = "running"
    /\ LET r == Drain(WINDOWS[t], [native |-> native, log |-> <<>>, dead |-> FALSE]) IN
       /\ native' = r.native
       /\ WINDOWS' = Drained(WINDOWS, t)
       /\ doubleDestroy' = (doubleDestroy \/ r.dead)
       /\ \E s \in DestroyOutcomes(r.dead) : status' = s
       /\ last' = Op("destroy_all_windows", t, NoHandle, <<>>, r.log,
                     [i \in 1..Len(r.log) |-> "uiControlDestroy"])
    /\ UNCHANGED <<initialized, initCount, heap, sets, individual>>

\* ------------------------------------------- native stub: the properties
uiWindowTitle(nat, h) == Append(nat[h].title, 0)
uiWindowSetTitle(nat, h, buf) == [nat EXCEPT ![h].title = CStrRead(buf)]
uiWindowPosition(nat, h) == nat[h].pos
uiWindowSetPosition(nat, h, x, y) == [nat EXCEPT ![h].pos = <<x, y>>]
uiWindowCenter(nat, h) == [nat EXCEPT ![h].pos = <<0, 0>>]
uiWindowContentSize(nat, h) == nat[h].size
uiWindowSetContentSize(nat, h, width, height) ==
    [nat EXCEPT ![h].size = <<width, height>>]
uiWindowFullscreen(nat, h) == nat[h].fullscreen
uiWindowSetFullscreen(nat, h, v) == [nat EXCEPT ![h].fullscreen = v]
uiWindowBorderless(nat, h) == nat[h].borderless
uiWindowSetBorderless(nat, h, v) == [nat EXCEPT ![h].borderless = v]
uiWindowMargined(nat, h) == nat[h].margined
uiWindowSetMargined(nat, h, v) == [nat EXCEPT ![h].margined = v]
uiWindowSetChild(nat, h, child) == [nat EXCEPT ![h].child = child]

\* ------------------------------------------------- the property wrappers
\* A getter: the check, one native read, the marshaled result. A getter changes
\* nothing, so it is a function of the state: the calls it makes and what it
\* returns.
Getter(res, call) ==
    IF ~ensure_initialized
    THEN [calls |-> <<"ensure_initialized">>, res |-> <<>>,
          err |-> "UninitializedToolkitError"]
    ELSE [calls |-> <<"ensure_initialized", call>>, res |-> res, err |-> "none"]

\* A setter: the check, one native write.
Setter(op, w, arg, nat, call) ==
    /\ status = "running"
    /\ native[as_ui_window(w)].alive
    /\ sets < MaxSets
    /\ IF ~ensure_initialized THEN Fatal(op, 0, as_ui_window(w))
       ELSE /\ native' = nat
            /\ sets' = sets + 1
            /\ last' = Op(op, 0, as_ui_window(w), arg, "ok", <<"ensure_initialized", call>>)
            /\ UNCHANGED <<initialized, initCount, status, WINDOWS, heap, individual,
                           doubleDestroy>>

title(w) ==
    Getter(TextNew(uiWindowTitle(native, w.ui_window)), "uiWindowTitle")

set_title(w, text) ==
    LET c_string == CStringNew(text) IN
    IF c_string.ok
    THEN Setter("set_title", w, text, uiWindowSetTitle(native, w.ui_window, c_string.buf),
                "uiWindowSetTitle")
    ELSE \* unwrap() of the NulError panics before uiWindowSetTitle is reached
         /\ status = "running"
         /\ native[w.ui_window].alive
         /\ sets < MaxSets
         /\ IF ~ensure_initialized THEN Fatal("set_title", 0, w.ui_window)
            ELSE /\ sets' = sets + 1
                 /\ last' = Failed("set_title", 0, w.ui_window, text, "EncodingError",
                                   <<"ensure_initialized">>)
                 /\ UNCHANGED <<initialized, initCount, status, WINDOWS, native, heap,
                                individual, doubleDestroy>>

position(w) ==
    Getter(uiWindowPosition(native, w.ui_window), "uiWindowPosition")

set_position_swapped(w, x, y) ==
    Setter("set_position", w, <<x, y>>,
           uiWindowSetPosition(native, w.ui_window, I32AsCInt(y), I32AsCInt(x)),
           "uiWindowSetPosition")

set_position(w, x, y) ==
    Setter("set_position", w, <<x, y>>,
           uiWindowSetPosition(native, w.ui_window, I32AsCInt(x), I32AsCInt(y)),
           "uiWindowSetPosition")

center_unchecked(w) ==
    /\ status = "running"
    /\ native[w.ui_window].alive
    /\ sets < MaxSets
    /\ native' = uiWindowCenter(native, w.ui_window)
    /\ sets' = sets + 1
    /\ last' = Op("center", 0, w.ui_window, <<>>, "ok", <<"uiWindowCenter">>)
    /\ UNCHANGED <<initialized, initCount, status, WINDOWS, heap, individual,
                   doubleDestroy>>

center(w) ==
    Setter("center", w, <<>>, uiWindowCenter(native, w.ui_window), "uiWindowCenter")

content_size(w) ==
    Getter(uiWindowContentSize(native, w.ui_window),
           "uiWindowContentSize")

set_content_size(w, width, height) ==
    Setter("set_content_size", w, <<width, height>>,
           uiWindowSetContentSize(native, w.ui_window, I32AsCInt(width),
                                  I32AsCInt(height)),
           "uiWindowSetContentSize")

fullscreen(w) ==
    Getter(uiWindowFullscreen(native, w.ui_window) # 0,
           "uiWindowFullscreen")

set_fullscreen(w, b) ==
    Setter("set_fullscreen", w, b,
           uiWindowSetFullscreen(native, w.ui_window, BoolAsCInt(b)),
           "uiWindowSetFullscreen")

borderless(w) ==
    Getter(uiWindowBorderless(native, w.ui_window) # 0,
           "uiWindowBorderless")

set_borderless(w, b) ==
    Setter("set_borderless", w, b,
           uiWindowSetBorderless(native, w.ui_window, BoolAsCInt(b)),
           "uiWindowSetBorderless")

margined(w) ==
    Getter(uiWindowMargined(native, w.ui_window) # 0,
           "uiWindowMargined")

set_margined(w, b) ==
    Setter("set_margined", w, b,
           uiWindowSetMargined(native, w.ui_window, BoolAsCInt(b)),
           "uiWindowSetMargined")

set_child(w, child) ==
    Setter("set_child", w, child, uiWindowSetChild(native, w.ui_window, child),
           "uiWindowSetChild")

\* The toolkit itself (the user, the window manager) switches a flag of a live
\* window; it stores whatever nonzero integer it likes for "on".
NativeFlags == {2}

NativeChange(h, flag, v) ==
    /\ status = "running"
    /\ native[h].alive
    /\ sets < MaxSets
    /\ native' = [native EXCEPT ![h][flag] = v]
    /\ sets' = sets + 1
    /\ last' = Op("native_change", 0, h, <<flag, v>>, "ok", <<>>)
    /\ UNCHANGED <<initialized, initCount, status, WINDOWS, heap, individual,
                   doubleDestroy>>

\* -------------------------------------------------------------- callbacks
\* Box::new(callback): the closure is boxed at a heap address not in use.
BoxNew(hp, a, h, kind, ret) ==
    [hp EXCEPT ![a] = [state |-> "live", ret |-> ret, h |-> h, kind |-> kind]]

\* mem::forget(data): the box is leaked, nothing is freed.
Forget(hp, a) == hp

\* The box goes out of scope: the closure is dropped and its memory freed.
Drop(hp, a) == [hp EXCEPT ![a].state = "freed"]

\* uiWindowOnPositionChanged / OnContentSizeChanged / OnClosing: the native
\* window keeps one (function, data) pair per event kind.
uiWindowOn(nat, h, kind, data) == [nat EXCEPT ![h].cb[kind] = data]

\* A registration: the check, the closure boxed, the native call, the leak.
Register(op, w, kind, ret, call) ==
    /\ status = "running"
    /\ native[as_ui_window(w)].alive
    /\ sets < MaxSets
    /\ IF ~ensure_initialized THEN Fatal(op, 0, as_ui_window(w))
       ELSE \E data \in Addrs :
            /\ heap[data].state # "live"
            /\ sets' = sets + 1
            /\ heap' = Forget(BoxNew(heap, data, as_ui_window(w), kind, ret), data)
            /\ native' = uiWindowOn(native, as_ui_window(w), kind, data)
            /\ last' = Op(op, 0, as_ui_window(w), ret, data,
                          <<"ensure_initialized", call>>)
            /\ UNCHANGED <<initialized, initCount, status, WINDOWS, individual,
                           doubleDestroy>>

on_position_changed(w) ==
    Register("on_position_changed", w, "position", FALSE, "uiWindowOnPositionChanged")

on_content_size_changed(w) ==
    Register("on_content_size_changed", w, "content_size", FALSE,
             "uiWindowOnContentSizeChanged")

on_closing(w, ret) ==
    Register("on_closing", w, "closing", ret, "uiWindowOnClosing")

\* Calling what lies behind `data` as a closure of `kind`, for `window`. A live
\* box runs its closure; a closure of another signature returns garbage. A freed
\* box is a dangling pointer: the call may crash or run the stale closure.
Invoke(hp, data, kind, window) ==
    LET box == hp[data]
        rets == IF box.state = "live" /\ box.kind = kind
                THEN {BoolAsCInt(box.ret)} ELSE {0, 1}
        ran == {[outcome |-> IF box.state = "live" THEN "ran" ELSE "stale",
                 window |-> from_ui_window(window), h |-> box.h, kind |-> box.kind,
                 ret |-> r] : r \in rets}
    IN IF box.state = "live" THEN ran
       ELSE ran \cup {[outcome |-> "abort", window |-> from_ui_window(window),
                        h |-> box.h, kind |-> box.kind, ret |-> 0]}

\* c_callback of on_position_changed / on_content_size_changed: `data` is
\* transmuted to a `&mut Box<FnMut(&Window)>`, so the box is only borrowed.
c_callback(h, kind, op) ==
    /\ status = "running"
    /\ native[h].alive
    /\ native[h].cb[kind] # NullData
    /\ \E o \in Invoke(heap, native[h].cb[kind], kind, h) :
       /\ status' = IF o.outcome = "abort" THEN "aborted" ELSE "running"
       /\ last' = Op(op, 0, h, native[h].cb[kind], o, <<"c_callback">>)
    /\ UNCHANGED <<initialized, initCount, WINDOWS, native, heap, sets, individual,
                   doubleDestroy>>

position_changed_event(h) == c_callback(h, "position", "position_changed_event")

content_size_changed_event(h) ==
    c_callback(h, "content_size", "content_size_changed_event")

\* The native default handling of a close request that was not suppressed.
DefaultClose(nat, h, res) == IF res # 0 THEN uiControlDestroy(nat, h) ELSE nat

\* c_callback of on_closing: `data` is transmuted to a `Box<Box<FnMut(&Window) ->
\* bool>>` by value, called, and dropped when the shim returns.
closing_event(h) ==
    /\ status = "running"
    /\ native[h].alive
    /\ native[h].cb["closing"] # NullData
    /\ \E o \in Invoke(heap, native[h].cb["closing"], "closing", h) :
       /\ status' = IF o.outcome = "abort" THEN "aborted" ELSE "running"
       /\ heap' = Drop(heap, native[h].cb["closing"])
       /\ native' = IF o.outcome = "abort" THEN native ELSE DefaultClose(native, h, o.ret)
       /\ individual' = (individual \/ (o.outcome # "abort" /\ o.ret # 0))
       /\ last' = Op("closing_event", 0, h, native[h].cb["closing"], o, <<"c_callback">>)
    /\ UNCHANGED <<initialized, initCount, WINDOWS, sets, doubleDestroy>>

\* ------------------------------------------------------- specifications
Window == {from_ui_window(h) : h \in Handles}

Create(t) ==
    \E text \in Titles, size \in Sizes, has_menubar \in Menubars :
        new(t, text, size, has_menubar)

Individual == \E w \in Window : destroy(w)

Properties ==
    \/ \E w \in Window, text \in Titles : set_title(w, text)
    \/ \E w \in Window, xy \in Coords : set_position(w, xy[1], xy[2])
    \/ \E w \in Window : center(w)
    \/ \E w \in Window, wh \in Coords : set_content_size(w, wh[1], wh[2])
    \/ \E w \in Window, b \in BOOLEAN : set_fullscreen(w, b)
    \/ \E w \in Window, b \in BOOLEAN : set_borderless(w, b)
    \/ \E w \in Window, b \in BOOLEAN : set_margined(w, b)
    \/ \E w \in Window, child \in Controls : set_child(w, child)
    \/ \E h \in Handles, flag \in {"fullscreen", "borderless", "margined"},
          v \in NativeFlags : NativeChange(h, flag, v)

Callbacks ==
    \/ \E w \in Window : on_position_changed(w)
    \/ \E w \in Window : on_content_size_changed(w)
    \/ \E w \in Window, ret \in BOOLEAN : on_closing(w, ret)
    \/ \E h \in Handles : position_changed_event(h)
    \/ \E h \in Handles : content_size_changed_event(h)
    \/ \E h \in Handles : closing_event(h)

\* Every operation of windows.rs, all on the one thread that drives the user
\* interface.
Next ==
    \/ init
    \/ Create(MainThread)
    \/ destroy_all_windows(MainThread)
    \/ Properties
    \/ Callbacks

Spec == Init /\ [][Next]_vars

\* The windows and their properties.
NextProps ==
    \/ init
    \/ Create(MainThread)
    \/ destroy_all_windows(MainThread)
    \/ Properties

SpecProps == Init /\ [][NextProps]_vars

\* The windows and their callbacks.
NextCallbacks ==
    \/ init
    \/ Create(MainThread)
    \/ destroy_all_windows(MainThread)
    \/ Callbacks

SpecCallbacks == Init /\ [][NextCallbacks]_vars

\* Creation and teardown on two threads, each with its own registry, with
\* windows also destroyed one by one.
NextLife ==
    \/ init
    \/ \E t \in Threads : Create(t)
    \/ \E t \in Threads : destroy_all_windows(t)
    \/ Individual

SpecLife == Init /\ [][NextLife]_vars

\* ------------------------------------------------------------ properties
HandlesOf(windows) == [i \in 1..Len(windows) |-> as_ui_window(windows[i])]

HasNul(bytes) == \E i \in 1..Len(bytes) : bytes[i] = 0

Created == last.op = "new" /\ last.err = "none"

EventKind(op) ==
    CASE op = "position_changed_event" -> "position"
      [] op = "content_size_changed_event" -> "content_size"
      [] op = "closing_event" -> "closing"
      [] OTHER -> "none"

EventOps == {"position_changed_event", "content_size_changed_event", "closing_event"}

\* The operations that reach the native toolkit through a wrapper of windows.rs
\* and record their calls.
CheckedOps ==
    {"new", "set_title", "set_position", "center", "set_content_size",
     "set_fullscreen", "set_borderless", "set_margined", "set_child",
     "on_position_changed", "on_content_size_changed", "on_closing"}

ChecksFirst(calls) ==
    (\E i \in 1..Len(calls) : calls[i] # "ensure_initialized")
        => calls[1] = "ensure_initialized"

GettersCheckFirst ==
    \A w \in Window :
        /\ ChecksFirst(title(w).calls)
        /\ ChecksFirst(position(w).calls)
        /\ ChecksFirst(content_size(w).calls)
        /\ ChecksFirst(fullscreen(w).calls)
        /\ ChecksFirst(borderless(w).calls)
        /\ ChecksFirst(margined(w).calls)

\* C1: a Window::new that returns appends exactly its own window to the end of
\* the calling thread's registry, whether or not the handle is already tracked,
\* and no operation other than Window::new and destroy_all_windows changes any
\* registry.
C1_RegistryIsCreationOrder ==
    [][/\ (last'.op = "new" /\ last'.err = "none")
            => WINDOWS' = [WINDOWS EXCEPT
                              ![last'.t] = Append(@, from_ui_window(last'.h))]
       /\ (last'.op = "new" /\ last'.err # "none") => WINDOWS' = WINDOWS
       /\ last'.op \notin {"new", "destroy_all_windows"} => WINDOWS' = WINDOWS]_vars

\* Two creations are tracked in order, though both got the same address: the
\* first window was closed and its address handed out again.
C1_Witness ==
    /\ Created
    /\ Len(WINDOWS[MainThread]) = 2
    /\ WINDOWS[MainThread][2] = from_ui_window(last.h)
    /\ WINDOWS[MainThread][1] = WINDOWS[MainThread][2]

\* C2: destroy_all_windows passes the handle of every window of the calling
\* thread's registry to the native destroy, in registry order, leaves each of
\* them destroyed and leaves the registry empty.
C2_DestroyAllDrainsInOrder ==
    [][last'.op = "destroy_all_windows"
          => /\ last'.res = HandlesOf(WINDOWS[last'.t])
             /\ WINDOWS'[last'.t] = <<>>
             /\ \A i \in 1..Len(WINDOWS[last'.t]) :
                   ~native'[as_ui_window(WINDOWS[last'.t][i])].alive]_vars

\* A teardown of two windows that only Window::new calls put in the registry.
C2_Witness ==
    /\ last.op = "destroy_all_windows"
    /\ ~individual
    /\ last.res = <<1, 2>>
    /\ WINDOWS[last.t] = <<>>

\* C3: on an initialized toolkit, Window::new and set_title given a title with
\* an embedded 0 byte fail with the encoding error, having made no native call:
\* no native window changes, none is created and no registry gains an entry.
C3_NulTitleIsRefused ==
    [][(last'.op \in {"new", "set_title"} /\ initialized /\ HasNul(last'.arg))
          => /\ last'.err = "EncodingError"
             /\ \A i \in 1..Len(last'.calls) : last'.calls[i] = "ensure_initialized"
             /\ native' = native
             /\ WINDOWS' = WINDOWS]_vars

\* set_title was refused on a window that keeps the title it had.
C3_Witness ==
    /\ last.op = "set_title"
    /\ last.err = "EncodingError"
    /\ HasNul(last.arg)
    /\ native[last.h].alive
    /\ title(from_ui_window(last.h)).res = <<1>>

\* C4: the closure registered for an event kind of a live window stays a live
\* box owned by that registration for as long as the native window keeps its
\* data pointer.
C4_ClosureStaysOwned ==
    \A h \in Handles, k \in Kinds :
        (native[h].alive /\ native[h].cb[k] # NullData)
            => /\ heap[native[h].cb[k]].state = "live"
               /\ heap[native[h].cb[k]].h = h
               /\ heap[native[h].cb[k]].kind = k

\* C5: a close request runs the closure registered with on_closing for that
\* window, with a wrapper of that window, and hands its boolean to the native
\* layer: 0 for false, 1 for true.
C5_ClosingResultIsTheCallbacks ==
    last.op = "closing_event"
        => /\ last.res.outcome = "ran"
           /\ last.res.window = from_ui_window(last.h)
           /\ last.res.h = last.h
           /\ last.res.kind = "closing"
           /\ last.res.ret = BoolAsCInt(heap[last.arg].ret)

\* C6: right after a setter went through, the matching getter on the same
\* window returns the value that was set; a boolean getter returns true exactly
\* when the native integer is not 0.
C6_GetAfterSet ==
    /\ (last.op = "set_title" /\ last.err = "none")
          => title(from_ui_window(last.h)).res = last.arg
    /\ last.op = "set_position" => position(from_ui_window(last.h)).res = last.arg
    /\ last.op = "set_content_size"
          => content_size(from_ui_window(last.h)).res = last.arg
    /\ last.op = "set_fullscreen" => fullscreen(from_ui_window(last.h)).res = last.arg
    /\ last.op = "set_borderless" => borderless(from_ui_window(last.h)).res = last.arg
    /\ last.op = "set_margined" => margined(from_ui_window(last.h)).res = last.arg
    /\ \A h \in Handles :
          native[h].alive
              => /\ fullscreen(from_ui_window(h)).res = (native[h].fullscreen # 0)
                 /\ borderless(from_ui_window(h)).res = (native[h].borderless # 0)
                 /\ margined(from_ui_window(h)).res = (native[h].margined # 0)

\* A position was set and is read back.
C6_Witness ==
    /\ last.op = "set_position"
    /\ last.arg = <<-1, 2>>
    /\ position(from_ui_window(last.h)).res = <<-1, 2>>

C9_NoDoubleDestroy == ~doubleDestroy

\* C9, amended: as long as no window is destroyed other than by
\* destroy_all_windows, no native destroy is given a destroyed window; and a
\* destroy_all_windows right after one on the same thread destroys nothing.
C9_NoDoubleDestroyByTeardown ==
    [][/\ ~individual' => ~doubleDestroy'
       /\ (last.op = "destroy_all_windows" /\ last'.op = "destroy_all_windows"
             /\ last'.t = last.t) => last'.res = <<>>]_vars

\* A teardown of two windows, each destroyed once.
C9_Witness ==
    /\ last.op = "destroy_all_windows"
    /\ Len(last.res) = 2
    /\ ~individual
    /\ ~doubleDestroy

\* C10: Window::new changes the registry of its own thread only, and
\* destroy_all_windows empties the registry of its own thread only and, where
\* windows are destroyed by teardown alone, leaves every window tracked by
\* another thread as it was.
C10_RegistryIsThreadConfined ==
    [][/\ (last'.op = "new" /\ last'.err = "none")
            => /\ \A u \in Threads \ {last'.t} : WINDOWS'[u] = WINDOWS[u]
               /\ WINDOWS'[last'.t] = Append(WINDOWS[last'.t], from_ui_window(last'.h))
       /\ last'.op = "destroy_all_windows"
            => /\ \A u \in Threads \ {last'.t} : WINDOWS'[u] = WINDOWS[u]
               /\ last'.res = HandlesOf(WINDOWS[last'.t])
               /\ ~individual
                     => \A u \in Threads \ {last'.t} : \A i \in 1..Len(WINDOWS[u]) :
                           native'[as_ui_window(WINDOWS[u][i])]
                               = native[as_ui_window(WINDOWS[u][i])]]_vars

\* One thread tore its window down while the other thread's window lives on.
C10_Witness ==
    /\ last.op = "destroy_all_windows"
    /\ Len(last.res) = 1
    /\ ~individual
    /\ \E u \in Threads \ {last.t} :
          /\ Len(WINDOWS[u]) = 1
          /\ native[as_ui_window(WINDOWS[u][1])].alive

====
